---------------------------- MODULE Spec2Model ----------------------------
(***************************************************************************)
(* The notebooks of mxnet-the-straight-dope as state machines.             *)
(*                                                                         *)
(*   "cnn"      P04-C02-cnn-gluon.ipynb, first notebook  (lines 1-273)     *)
(*   "softmax"  P04-C02-cnn-gluon.ipynb, second notebook (lines 275-634)   *)
(*   "vgg"      unnamed/part_000 (very deep networks, VGG)                 *)
(*   "ndarray"  P01-C02-ndarray.ipynb                                      *)
(*                                                                         *)
(* A notebook is a script: pc is the statement that runs next.  Two        *)
(* executions of the same notebook on the same data run side by side       *)
(* (Runs); everything a run computes is indexed by the run.  The control   *)
(* flow of the notebooks depends on the notebook and on the sizes of the   *)
(* datasets only, so the two executions share pc, e and i.                 *)
(*                                                                         *)
(* The framework (mxnet) is outside the repository.  Its iterators are     *)
(* modelled by what they deliver (NDArrayIter pads the last batch by       *)
(* wrapping around, DataLoader(last_batch='discard') drops it); the        *)
(* network is an abstract parameter value w with a fixed forward function. *)
(* Floating point values are fixed point numbers, rounded down.            *)
(***************************************************************************)
EXTENDS Integers, Sequences, FiniteSets, TLC

VARIABLES
    nb,                 \* the notebook that is executed
    pc,                 \* the statement that runs next
    nTrain, nTest,      \* number of samples of the training / held-out dataset
    architecture,       \* vgg: the architecture tuple
    e,                  \* index of the epoch of `for e in range(epochs)`
    i,                  \* the name i: <<>> unbound, <<k>> bound to k
    perturbed,          \* run -> whether the run's moving-loss inputs are altered
    rng,                \* run -> the generator: its state, whether seed() ran
    drawn,              \* run -> the random values drawn so far
    train_data,         \* run -> the training iterator (<<>> before it is made)
    test_data,          \* run -> the held-out iterator
    net,                \* run -> the network: layers and parameters
    trainer,            \* run -> whether the Trainer exists
    batch,              \* run -> the samples of the current mini-batch
    loss,               \* run -> the loss array of the current mini-batch
    grad,               \* run -> <<>> or <<g>>, the gradient after backward()
    smoothing_constant, \* run -> <<>> or <<percent>>
    moving_loss,        \* run -> <<>> unbound, or <<value>>
    test_accuracy,      \* run -> <<>> or <<[sum_metric, num_inst]>>
    train_accuracy,     \* run -> <<>> or <<[sum_metric, num_inst]>>
    reports,            \* run -> the lines printed by the training loop
    used,               \* run -> sample -> mini-batches of this epoch holding it
    updates,            \* run -> number of trainer.step calls so far
    heap,               \* run -> the arrays allocated so far (id = index)
    names               \* run -> the ids the names x, y, z refer to (0 unbound)

vars == <<nb, pc, nTrain, nTest, architecture, e, i, perturbed, rng, drawn,
          train_data, test_data, net, trainer, batch, loss, grad,
          smoothing_constant, moving_loss, test_accuracy, train_accuracy,
          reports, used, updates, heap, names>>

ctl == <<nb, nTrain, nTest, architecture, perturbed>>

Runs == {1, 2}

Notebooks == {"cnn", "softmax", "vgg", "ndarray"}

Training == {"cnn", "softmax", "vgg"}

(***************************************************************************)
(* Program constants.                                                      *)
(***************************************************************************)
batch_size == 64

num_outputs == 10

num_classes == 10

epochs == 10

\* smoothing_constant = .01, in percent
smoothing_percent == 1

(***************************************************************************)
(* Bounds of the model.                                                    *)
(***************************************************************************)
\* samples beyond the full batches, in a dataset that is no multiple of
\* batch_size
ExtraTrain == 6

ExtraTest == 3

\* states the generator of an execution may start in
NSeeds == 2

\* outcomes of one shuffle
NShuffles == 3

\* outcomes of the random parameter initialisation
NInit == 2

\* outcomes of one random array / one uninitialised array
NFill == 2

\* blocks of an architecture, and convolutions of a block, in the inputs
MaxBlocks == 2

MaxConvs == 2

\* the sizes <<training set, held-out set>> of the datasets
Sizes ==
    {<<batch_size + ExtraTrain, batch_size>>,
     <<2 * batch_size, batch_size + ExtraTest>>,
     <<2 * batch_size + ExtraTrain, 2 * batch_size>>}

All(v) == [r \in Runs |-> v]

RECURSIVE SumSeq(_)
SumSeq(s) == IF s = <<>> THEN 0 ELSE Head(s) + SumSeq(Tail(s))

(***************************************************************************)
(* mx.random: the generator is a deterministic sequence of its state.  The *)
(* state a process starts with differs from one execution to the next;     *)
(* mx.random.seed(1) sets it.                                              *)
(***************************************************************************)
HasSeed(n) == n \in {"cnn", "vgg", "ndarray"}

seed(s) == [state |-> s, seeded |-> TRUE]

NextRng(s) == (5 * s + 3) % 16

Rand(s, k) == (NextRng(s) \div 4) % k

\* the values (one per run) drawn out of 0..k-1
Draws(k) == {[r \in Runs |-> Rand(rng[r].state, k)]}

Draw(v) ==
    /\ rng' = [r \in Runs |-> [rng[r] EXCEPT !.state = NextRng(@)]]
    /\ drawn' = [r \in Runs |-> Append(drawn[r], v[r])]

NoDraw == UNCHANGED <<rng, drawn>>


(***************************************************************************)
(* Data iterators.  Samples are 1..n; an iterator delivers them in the     *)
(* order fixed by its shuffle (perm: the rotation the shuffle chose).      *)
(* cursor is the position of the current batch, -batch_size before the     *)
(* first one.                                                              *)
(***************************************************************************)
NDArrayIter(n, perm) ==
    [kind |-> "NDArrayIter", n |-> n, shuffle |-> TRUE, last_batch |-> "pad",
     perm |-> perm, cursor |-> 0 - batch_size]

DataLoader(n, shuffle) ==
    [kind |-> "DataLoader", n |-> n, shuffle |-> shuffle,
     last_batch |-> "discard", perm |-> 0, cursor |-> 0 - batch_size]

Order(it) == [k \in 1 .. it.n |-> ((k - 1 + it.perm) % it.n) + 1]

reset(it) == [it EXCEPT !.cursor = 0 - batch_size]

\* a new pass of a DataLoader: iter(loader), in the order perm
new_pass(it, perm) == [it EXCEPT !.cursor = 0 - batch_size, !.perm = perm]

advance(it) == [it EXCEPT !.cursor = @ + batch_size]

\* whether another batch follows the current one
iter_next(it) ==
    LET c == it.cursor + batch_size
    IN  IF it.last_batch = "pad" THEN c < it.n ELSE c + batch_size <= it.n

\* the samples of the batch at the cursor; a short last batch is padded
\* with the samples from the start of the order
getdata(it) ==
    LET c == it.cursor
        o == Order(it)
    IN  IF c + batch_size <= it.n
        THEN SubSeq(o, c + 1, c + batch_size)
        ELSE SubSeq(o, c + 1, it.n) \o SubSeq(o, 1, batch_size - it.n + c)

RECURSIVE BatchesFrom(_)
BatchesFrom(it) ==
    IF iter_next(it)
    THEN <<getdata(advance(it))>> \o BatchesFrom(advance(it))
    ELSE <<>>

\* the batches of one full pass
Batches(it) == BatchesFrom(reset(it))

\* the iterator after a full pass
RECURSIVE Exhaust(_)
Exhaust(it) == IF iter_next(it) THEN Exhaust(advance(it)) ELSE advance(it)

(***************************************************************************)
(* The network.  The parameters are one number w; the forward pass gives   *)
(* each sample its class scores.  Sample s has label s % num_outputs and   *)
(* is scored right by w unless w + 2 divides s.                            *)
(***************************************************************************)
Label(s) == s % num_outputs

Scores(w, s) ==
    LET top == IF s % (w + 2) # 0 THEN Label(s) ELSE (Label(s) + 1) % num_outputs
    IN  [c \in 1 .. num_outputs |-> IF c - 1 = top THEN 1 ELSE 0]

\* net(data): one row of class scores per sample
Forward(w, data) == [k \in 1 .. Len(data) |-> Scores(w, data[k])]

\* nd.argmax(output, axis=1): the first class with the highest score
argmax(row) ==
    (CHOOSE c \in 1 .. Len(row) :
        /\ \A d \in 1 .. Len(row) : row[d] <= row[c]
        /\ \A d \in 1 .. (c - 1) : row[d] < row[c]) - 1

\* gluon.loss.SoftmaxCrossEntropyLoss: one loss per sample, in 1/6400
softmax_cross_entropy(output, label) ==
    [k \in 1 .. Len(output) |-> IF argmax(output[k]) = label[k] THEN 0 ELSE 6400]

\* nd.mean(loss).asscalar()
mean(l) == SumSeq(l) \div Len(l)

\* loss.backward(): the gradient of the summed loss
backward(l) == SumSeq(l) \div 6400

\* trainer.step(n): one SGD update with the gradient rescaled by 1/n
trainer_step(w, g, n) == w + (g + n - 1) \div n

Labels(data) == [k \in 1 .. Len(data) |-> Label(data[k])]

(***************************************************************************)
(* evaluate_accuracy: mx.metric.Accuracy over every batch of the iterator. *)
(***************************************************************************)
acc_update(acc, preds, labels) ==
    [sum_metric |-> acc.sum_metric
                    + Cardinality({k \in 1 .. Len(preds) : preds[k] = labels[k]}),
     num_inst   |-> acc.num_inst + Len(preds)]

RECURSIVE acc_over(_, _, _)
acc_over(acc, bs, w) ==
    IF bs = <<>> THEN acc
    ELSE LET data == Head(bs)
             output == Forward(w, data)
             predictions == [k \in 1 .. Len(output) |-> argmax(output[k])]
         IN  acc_over(acc_update(acc, predictions, Labels(data)), Tail(bs), w)

\* the value returned: acc.get()[1] is sum_metric / num_inst, kept as the pair
evaluate_accuracy(it, w) ==
    acc_over([sum_metric |-> 0, num_inst |-> 0], Batches(it), w)

(***************************************************************************)
(* Network definitions.                                                    *)
(***************************************************************************)
Conv2D(channels, kernel_size) ==
    [type |-> "Conv2D", channels |-> channels, kernel_size |-> kernel_size,
     activation |-> "relu"]

MaxPool2D(pool_size, strides) ==
    [type |-> "MaxPool2D", pool_size |-> pool_size, strides |-> strides]

Flatten == [type |-> "Flatten"]

Dense(units, activation) ==
    [type |-> "Dense", units |-> units, activation |-> activation]

HybridSequential(children) == [type |-> "HybridSequential", children |-> children]

\* vgg_block with the pooling layer added inside the loop
vgg_block_pool_in_loop(convs, channels) ==
    HybridSequential([k \in 1 .. (2 * convs) |->
                         IF k % 2 = 1 THEN Conv2D(channels, 3) ELSE MaxPool2D(2, 2)])

vgg_block(convs, channels) ==
    HybridSequential([k \in 1 .. convs |-> Conv2D(channels, 3)]
                     \o <<MaxPool2D(2, 2)>>)

vgg_stack(arch) ==
    HybridSequential([k \in 1 .. Len(arch) |-> vgg_block(arch[k][1], arch[k][2])])

vgg_net(arch) ==
    HybridSequential(<<vgg_stack(arch), Flatten, Dense(4096, "relu"),
                       Dense(4096, "relu"), Dense(num_classes, "none")>>)

cnn_net ==
    <<Conv2D(20, 5), MaxPool2D(2, 2), Conv2D(50, 5), MaxPool2D(2, 2), Flatten,
      Dense(512, "relu"), Dense(num_outputs, "none")>>

softmax_net == <<Dense(num_outputs, "none")>>

\* architecture = ((2,64), (2,128), (3,256), (3, 512), (3, 512))
notebook_architecture == <<<<2, 64>>, <<2, 128>>, <<3, 256>>, <<3, 512>>, <<3, 512>>>>

(***************************************************************************)
(* Parameter shapes.  A network keeps the shapes of its weights, one per   *)
(* Conv2D or Dense layer in the order of the layers; <<>> stands for       *)
(* shapes not known yet.                                                   *)
(***************************************************************************)
\* the shape of one sample of the data the notebook n hands to its network
data_shape(n) ==
    IF n = "cnn" THEN <<1, 28, 28>>
    ELSE IF n = "softmax" THEN <<784>>
    ELSE <<3, 224, 224>>

RECURSIVE Prod(_)
Prod(shape) == IF shape = <<>> THEN 1 ELSE Head(shape) * Prod(Tail(shape))

\* the layers a network applies, in order
Children(n, layers) == IF n = "vgg" THEN layers.children ELSE layers

RECURSIVE infer_shape(_, _)
RECURSIVE infer_children(_, _)
\* the weight shapes of a layer fed data of shape in, and the shape it gives
infer_shape(layer, in) ==
    IF layer.type = "Conv2D"
    THEN [shapes |-> <<<<layer.channels, in[1], layer.kernel_size,
                         layer.kernel_size>>>>,
          out    |-> <<layer.channels, in[2] - layer.kernel_size + 1,
                       in[3] - layer.kernel_size + 1>>]
    ELSE IF layer.type = "MaxPool2D"
    THEN [shapes |-> <<>>,
          out    |-> <<in[1], (in[2] - layer.pool_size) \div layer.strides + 1,
                       (in[3] - layer.pool_size) \div layer.strides + 1>>]
    ELSE IF layer.type = "Flatten"
    THEN [shapes |-> <<>>, out |-> <<Prod(in)>>]
    ELSE IF layer.type = "Dense"
    THEN [shapes |-> <<<<layer.units, Prod(in)>>>>, out |-> <<layer.units>>]
    ELSE infer_children(layer.children, in)

infer_children(children, in) ==
    IF children = <<>> THEN [shapes |-> <<>>, out |-> in]
    ELSE LET first == infer_shape(Head(children), in)
             rest == infer_children(Tail(children), first.out)
         IN  [shapes |-> first.shapes \o rest.shapes, out |-> rest.out]

\* a network whose call leaves the shapes as they are
net_call_without_inference(n, nt) == nt

\* the network nt of notebook n after net(data): the first call infers the
\* shapes from the data
net_call(n, nt) ==
    IF nt.shapes = <<>>
    THEN [nt EXCEPT !.shapes =
             <<infer_children(Children(n, nt.layers), data_shape(n)).shapes>>]
    ELSE nt

\* the network after evaluate_accuracy(it, net): called on every batch
evaluated(n, nt, it) == IF Batches(it) = <<>> THEN nt ELSE net_call(n, nt)

(***************************************************************************)
(* NDArray: an array is its shape and its values, row by row.  An array's  *)
(* identity is its place in the heap.                                      *)
(***************************************************************************)
\* the length of the first axis, as len() of an array gives
size_first_axis(shape) == shape[1]

size(shape) == shape[1] * shape[2]

full(shape, v) == [shape |-> shape, data |-> [k \in 1 .. size(shape) |-> v]]

zeros(shape) == full(shape, 0)

ones(shape) == full(shape, 1)

\* the array an outcome v of the generator (or of stale memory) stands for
filled(shape, v) ==
    [shape |-> shape, data |-> [k \in 1 .. size(shape) |-> ((v + k) % 3) - 1]]

\* a + b: a new array
add(a, b) ==
    [shape |-> a.shape, data |-> [k \in 1 .. Len(a.data) |-> a.data[k] + b.data[k]]]

\* the heap after allocating a; its id is Len(h) + 1
alloc(h, a) == Append(h, a)

\* target[:] = value that leaves the target as it was
setitem_lost(h, id, value) == h

\* target[:] = value: the values are written into the target's memory
setitem(h, id, value) == [h EXCEPT ![id].data = value.data]

\* target += b
iadd(h, id, b) == [h EXCEPT ![id] = add(@, b)]

(***************************************************************************)
(* Initial states.                                                         *)
(***************************************************************************)
\* the architectures tried: the notebook's, and every one of up to MaxBlocks
\* blocks of 0..MaxConvs convolutions whose channels double from 64 on
Archs ==
    {notebook_architecture}
    \cup UNION {{[k \in 1 .. n |-> <<c[k], 64 * 2 ^ (k - 1)>>] :
                    c \in [1 .. n -> 0 .. MaxConvs]} : n \in 1 .. MaxBlocks}

\* what an altered run uses for smoothing_constant (percent) and as the
\* value of moving_loss before the loop
Perturbation == [smoothing |-> 50, moving_loss |-> 777]

InitCommon ==
    /\ nb \in Notebooks
    /\ pc = "import"
    /\ \E sz \in (IF nb \in Training THEN Sizes ELSE {<<0, 0>>}) :
          /\ nTrain = sz[1]
          /\ nTest = sz[2]
    /\ architecture \in (IF nb = "vgg" THEN Archs ELSE {<<>>})
    /\ e = 0
    /\ i = <<>>
    /\ rng \in [Runs -> [state : 0 .. (NSeeds - 1), seeded : {FALSE}]]
    /\ drawn = All(<<>>)
    /\ train_data = All(<<>>)
    /\ test_data = All(<<>>)
    /\ net = All(<<>>)
    /\ trainer = All(FALSE)
    /\ batch = All(<<>>)
    /\ loss = All(<<>>)
    /\ grad = All(<<>>)
    /\ smoothing_constant = All(<<>>)
    /\ test_accuracy = All(<<>>)
    /\ train_accuracy = All(<<>>)
    /\ reports = All(<<>>)
    /\ used = All([s \in 1 .. nTrain |-> 0])
    /\ updates = All(0)
    /\ heap = All(<<>>)
    /\ names = All([x |-> 0, y |-> 0, z |-> 0])

Init ==
    /\ InitCommon
    /\ perturbed = All(FALSE)
    /\ moving_loss = All(<<>>)

\* two executions that differ in the moving loss only: the second starts
\* with moving_loss bound and uses another smoothing constant
InitPair ==
    /\ InitCommon
    /\ perturbed = [r \in Runs |-> r = 2]
    /\ rng[1] = rng[2]
    /\ moving_loss = [r \in Runs |-> IF r = 2 THEN <<Perturbation.moving_loss>>
                                     ELSE <<>>]

(***************************************************************************)
(* Set-up cells.                                                           *)
(***************************************************************************)
Import ==
    /\ pc = "import"
    /\ rng' = IF HasSeed(nb) THEN All(seed(1)) ELSE rng
    /\ pc' = IF nb = "ndarray" THEN "nd_empty" ELSE "train_data"
    /\ UNCHANGED <<ctl, e, i, drawn, train_data, test_data, net, trainer, batch,
                   loss, grad, smoothing_constant, moving_loss, test_accuracy,
                   train_accuracy, reports, used, updates, heap, names>>

LoadTrain ==
    /\ pc = "train_data"
    /\ \/ /\ nb \in {"cnn", "softmax"}
          /\ \E v \in Draws(NShuffles) :
                /\ train_data' = [r \in Runs |-> <<NDArrayIter(nTrain, v[r])>>]
                /\ Draw(v)
       \/ /\ nb = "vgg"
          /\ train_data' = All(<<DataLoader(nTrain, TRUE)>>)
          /\ NoDraw
    /\ pc' = "test_data"
    /\ UNCHANGED <<ctl, e, i, test_data, net, trainer, batch, loss, grad,
                   smoothing_constant, moving_loss, test_accuracy,
                   train_accuracy, reports, used, updates, heap, names>>

LoadTest ==
    /\ pc = "test_data"
    /\ \/ /\ nb \in {"cnn", "softmax"}
          /\ \E v \in Draws(NShuffles) :
                /\ test_data' = [r \in Runs |-> <<NDArrayIter(nTest, v[r])>>]
                /\ Draw(v)
          /\ pc' = "net"
       \/ /\ nb = "vgg"
          /\ test_data' = All(<<DataLoader(nTest, FALSE)>>)
          /\ NoDraw
          /\ pc' = "peek"
    /\ UNCHANGED <<ctl, e, i, train_data, net, trainer, batch, loss, grad,
                   smoothing_constant, moving_loss, test_accuracy,
                   train_accuracy, reports, used, updates, heap, names>>

\* vgg: `for d, l in train_data: break`
Peek ==
    /\ pc = "peek"
    /\ \E v \in Draws(NShuffles) :
          /\ train_data' = [r \in Runs |->
                               <<advance(new_pass(train_data[r][1], v[r]))>>]
          /\ Draw(v)
    /\ batch' = [r \in Runs |-> getdata(train_data'[r][1])]
    /\ pc' = "net"
    /\ UNCHANGED <<ctl, e, i, test_data, net, trainer, loss, grad,
                   smoothing_constant, moving_loss, test_accuracy,
                   train_accuracy, reports, used, updates, heap, names>>

Layers(n) ==
    IF n = "cnn" THEN cnn_net
    ELSE IF n = "softmax" THEN softmax_net
    ELSE vgg_net(architecture)

DefineNet ==
    /\ pc = "net"
    /\ net' = All(<<[layers |-> Layers(nb), params |-> <<>>, shapes |-> <<>>]>>)
    /\ pc' = "initialize"
    /\ UNCHANGED <<ctl, e, i, rng, drawn, train_data, test_data, trainer, batch,
                   loss, grad, smoothing_constant, moving_loss, test_accuracy,
                   train_accuracy, reports, used, updates, heap, names>>

\* net.collect_params().initialize(...): random parameter values
Initialize ==
    /\ pc = "initialize"
    /\ \E v \in Draws(NInit) :
          /\ net' = [r \in Runs |-> <<[net[r][1] EXCEPT !.params = <<v[r]>>]>>]
          /\ Draw(v)
    /\ pc' = "trainer"
    /\ UNCHANGED <<ctl, e, i, train_data, test_data, trainer, batch, loss, grad,
                   smoothing_constant, moving_loss, test_accuracy,
                   train_accuracy, reports, used, updates, heap, names>>

MakeTrainer ==
    /\ pc = "trainer"
    /\ trainer' = All(TRUE)
    /\ pc' = IF nb = "softmax" THEN "first_eval" ELSE "loop_init"
    /\ UNCHANGED <<ctl, e, i, rng, drawn, train_data, test_data, net, batch,
                   loss, grad, smoothing_constant, moving_loss, test_accuracy,
                   train_accuracy, reports, used, updates, heap, names>>

\* softmax: the cell `evaluate_accuracy(test_data, net)` before training
FirstEval ==
    /\ pc = "first_eval"
    /\ net' = [r \in Runs |-> <<evaluated(nb, net[r][1], test_data[r][1])>>]
    /\ test_data' = [r \in Runs |-> <<Exhaust(reset(test_data[r][1]))>>]
    /\ pc' = "loop_init"
    /\ UNCHANGED <<ctl, e, i, rng, drawn, train_data, trainer, batch, loss,
                   grad, smoothing_constant, moving_loss, test_accuracy,
                   train_accuracy, reports, used, updates, heap, names>>

\* epochs = 10; (softmax: moving_loss = 0.;) smoothing_constant = .01
LoopInit ==
    /\ pc = "loop_init"
    /\ smoothing_constant' =
          [r \in Runs |-> <<IF perturbed[r] THEN Perturbation.smoothing
                            ELSE smoothing_percent>>]
    /\ moving_loss' =
          IF nb = "softmax"
          THEN [r \in Runs |-> IF perturbed[r] THEN moving_loss[r] ELSE <<0>>]
          ELSE moving_loss
    /\ pc' = "epoch"
    /\ UNCHANGED <<ctl, e, i, rng, drawn, train_data, test_data, net, trainer,
                   batch, loss, grad, test_accuracy, train_accuracy, reports,
                   used, updates, heap, names>>

(***************************************************************************)
(* The training loop.                                                      *)
(***************************************************************************)
\* the name the loop trains, and the name it hands to evaluate_accuracy
TrainedNet(n) == IF n = "vgg" THEN "vgg_net" ELSE "net"

EvaluatedNet(n) == IF n = "vgg" THEN "alex_net" ELSE "net"

\* the network names bound in the notebook
BoundNets(n) == {TrainedNet(n)}

\* whether the batch loop binds i (`for i, batch in enumerate(train_data)`)
BindsI(n) == n \in {"cnn", "softmax"}

w(r) == net[r][1].params[1]

\* the moving average of the losses (sc in percent)
moving_average(ml, curr_loss, sc, iv, ev) ==
    IF (iv = 0) /\ (ev = 0) THEN curr_loss
    ELSE ((100 - sc) * ml[1] + sc * curr_loss) \div 100

\* the number of times sample s is in the batch b
Occurrences(b, s) == Cardinality({k \in 1 .. Len(b) : b[k] = s})

\* `for e in range(epochs):` with another epoch to run, and the start of
\* its pass over train_data
EpochStart ==
    /\ pc = "epoch"
    /\ e < epochs
    /\ \/ /\ nb \in {"cnn", "softmax"}
          /\ train_data' = [r \in Runs |-> <<reset(train_data[r][1])>>]
          /\ NoDraw
       \/ /\ nb = "vgg"
          /\ \E v \in Draws(NShuffles) :
                /\ train_data' = [r \in Runs |->
                                     <<new_pass(train_data[r][1], v[r])>>]
                /\ Draw(v)
    /\ used' = All([s \in 1 .. nTrain |-> 0])
    /\ pc' = "batch"
    /\ UNCHANGED <<ctl, e, i, test_data, net, trainer, batch, loss, grad,
                   smoothing_constant, moving_loss, test_accuracy,
                   train_accuracy, reports, updates, heap, names>>

LoopEnd ==
    /\ pc = "epoch"
    /\ e = epochs
    /\ pc' = "done"
    /\ UNCHANGED <<ctl, e, i, rng, drawn, train_data, test_data, net, trainer,
                   batch, loss, grad, smoothing_constant, moving_loss,
                   test_accuracy, train_accuracy, reports, used, updates, heap,
                   names>>

\* the batch loop delivers the next mini-batch
NextBatch ==
    /\ pc = "batch"
    /\ iter_next(train_data[1][1])
    /\ train_data' = [r \in Runs |-> <<advance(train_data[r][1])>>]
    /\ batch' = [r \in Runs |-> getdata(train_data'[r][1])]
    /\ i' = IF BindsI(nb) THEN <<train_data'[1][1].cursor \div batch_size>> ELSE i
    /\ pc' = "forward"
    /\ UNCHANGED <<ctl, e, rng, drawn, test_data, net, trainer, loss, grad,
                   smoothing_constant, moving_loss, test_accuracy,
                   train_accuracy, reports, used, updates, heap, names>>

\* the batch loop is over
EndBatches ==
    /\ pc = "batch"
    /\ ~iter_next(train_data[1][1])
    /\ train_data' = [r \in Runs |-> <<advance(train_data[r][1])>>]
    /\ pc' = "eval_test"
    /\ UNCHANGED <<ctl, e, i, rng, drawn, test_data, net, trainer, batch, loss,
                   grad, smoothing_constant, moving_loss, test_accuracy,
                   train_accuracy, reports, used, updates, heap, names>>

\* with autograd.record(): output = net(data); loss = softmax_cross_entropy(...)
ForwardPass ==
    /\ pc = "forward"
    /\ loss' = [r \in Runs |->
                   softmax_cross_entropy(Forward(w(r), batch[r]), Labels(batch[r]))]
    /\ net' = [r \in Runs |-> <<net_call(nb, net[r][1])>>]
    /\ grad' = All(<<>>)
    /\ pc' = "backward"
    /\ UNCHANGED <<ctl, e, i, rng, drawn, train_data, test_data, trainer,
                   batch, smoothing_constant, moving_loss, test_accuracy,
                   train_accuracy, reports, used, updates, heap, names>>

\* loss.backward()
Backward ==
    /\ pc = "backward"
    /\ grad' = [r \in Runs |-> <<backward(loss[r])>>]
    /\ pc' = "step"
    /\ UNCHANGED <<ctl, e, i, rng, drawn, train_data, test_data, net, trainer,
                   batch, loss, smoothing_constant, moving_loss, test_accuracy,
                   train_accuracy, reports, used, updates, heap, names>>

\* the parameters after a step whose gradient is scaled by the moving loss
stepped_by_moving_loss(r) ==
    trainer_step(w(r),
                 grad[r][1] * (1 + (IF moving_loss[r] = <<>> THEN 0
                                    ELSE moving_loss[r][1])),
                 Len(batch[r]))

\* the parameters of run r after trainer.step(data.shape[0])
stepped(r) == trainer_step(w(r), grad[r][1], Len(batch[r]))

TrainerStep ==
    /\ pc = "step"
    /\ net' = [r \in Runs |-> <<[net[r][1] EXCEPT !.params = <<stepped(r)>>]>>]
    /\ updates' = [r \in Runs |-> updates[r] + 1]
    /\ used' = [r \in Runs |->
                   [s \in 1 .. nTrain |-> used[r][s] + Occurrences(batch[r], s)]]
    /\ pc' = "moving_loss"
    /\ UNCHANGED <<ctl, e, i, rng, drawn, train_data, test_data, trainer, batch,
                   loss, grad, smoothing_constant, moving_loss, test_accuracy,
                   train_accuracy, reports, heap, names>>

\* curr_loss = nd.mean(loss).asscalar(); moving_loss = (curr_loss if ...)
\* reading the unbound name i raises NameError
MovingLoss ==
    /\ pc = "moving_loss"
    /\ IF i = <<>>
       THEN /\ pc' = "NameError"
            /\ UNCHANGED moving_loss
       ELSE /\ moving_loss' =
                  [r \in Runs |->
                      <<moving_average(moving_loss[r], mean(loss[r]),
                                       smoothing_constant[r][1], i[1], e)>>]
            /\ pc' = "batch"
    /\ UNCHANGED <<ctl, e, i, rng, drawn, train_data, test_data, net, trainer,
                   batch, loss, grad, smoothing_constant, test_accuracy,
                   train_accuracy, reports, used, updates, heap, names>>

\* test_accuracy = evaluate_accuracy(test_data, <net>)
EvalTest ==
    /\ pc = "eval_test"
    /\ IF EvaluatedNet(nb) \in BoundNets(nb)
       THEN /\ test_accuracy' =
                  [r \in Runs |-> <<evaluate_accuracy(test_data[r][1], w(r))>>]
            /\ net' = [r \in Runs |->
                          <<evaluated(nb, net[r][1], test_data[r][1])>>]
            /\ test_data' = [r \in Runs |-> <<Exhaust(reset(test_data[r][1]))>>]
            /\ pc' = "eval_train"
       ELSE /\ pc' = "NameError"
            /\ UNCHANGED <<test_accuracy, test_data, net>>
    /\ UNCHANGED <<ctl, e, i, rng, drawn, train_data, trainer, batch, loss,
                   grad, smoothing_constant, moving_loss, train_accuracy,
                   reports, used, updates, heap, names>>

\* train_accuracy = evaluate_accuracy(train_data, <net>)
EvalTrain ==
    /\ pc = "eval_train"
    /\ IF EvaluatedNet(nb) \in BoundNets(nb)
       THEN /\ train_accuracy' =
                  [r \in Runs |-> <<evaluate_accuracy(train_data[r][1], w(r))>>]
            /\ net' = [r \in Runs |->
                          <<evaluated(nb, net[r][1], train_data[r][1])>>]
            /\ train_data' = [r \in Runs |-> <<Exhaust(reset(train_data[r][1]))>>]
            /\ pc' = "print"
       ELSE /\ pc' = "NameError"
            /\ UNCHANGED <<train_accuracy, train_data, net>>
    /\ UNCHANGED <<ctl, e, i, rng, drawn, test_data, trainer, batch, loss,
                   grad, smoothing_constant, moving_loss, test_accuracy,
                   reports, used, updates, heap, names>>

\* print("Epoch %s. Loss: %s, Train_acc %s, Test_acc %s" % (...)), and the
\* epoch loop moves on
PrintReport ==
    /\ pc = "print"
    /\ reports' = [r \in Runs |->
                      Append(reports[r],
                             [epoch |-> e, loss |-> moving_loss[r][1],
                              train_acc |-> train_accuracy[r][1],
                              test_acc |-> test_accuracy[r][1]])]
    /\ e' = e + 1
    /\ pc' = "epoch"
    /\ UNCHANGED <<ctl, i, rng, drawn, train_data, test_data, net, trainer,
                   batch, loss, grad, smoothing_constant, moving_loss,
                   test_accuracy, train_accuracy, used, updates, heap, names>>

(***************************************************************************)
(* The cells of the ndarray notebook.                                      *)
(***************************************************************************)
NdFrame ==
    UNCHANGED <<ctl, e, i, train_data, test_data, net, trainer, batch, loss,
                grad, smoothing_constant, moving_loss, test_accuracy,
                train_accuracy, reports, used, updates>>

\* the heap and the names of run r after `name = <new array a>`
Bind(r, name, a) ==
    [heap |-> alloc(heap[r], a),
     names |-> [names[r] EXCEPT ![name] = Len(heap[r]) + 1]]

\* x = nd.empty(shape=(3, 4)): the values are whatever the memory held
NdEmpty ==
    /\ pc = "nd_empty"
    /\ \E g \in [Runs -> 0 .. (NFill - 1)] :
          /\ heap' = [r \in Runs |-> Bind(r, "x", filled(<<3, 4>>, g[r])).heap]
          /\ names' = [r \in Runs |-> Bind(r, "x", filled(<<3, 4>>, g[r])).names]
    /\ NoDraw
    /\ pc' = "nd_zeros"
    /\ NdFrame

\* x = nd.zeros(shape=(3, 5))
NdZeros ==
    /\ pc = "nd_zeros"
    /\ heap' = [r \in Runs |-> Bind(r, "x", zeros(<<3, 5>>)).heap]
    /\ names' = [r \in Runs |-> Bind(r, "x", zeros(<<3, 5>>)).names]
    /\ NoDraw
    /\ pc' = "nd_ones"
    /\ NdFrame

\* x = nd.ones(shape=(3, 4))
NdOnes ==
    /\ pc = "nd_ones"
    /\ heap' = [r \in Runs |-> Bind(r, "x", ones(<<3, 4>>)).heap]
    /\ names' = [r \in Runs |-> Bind(r, "x", ones(<<3, 4>>)).names]
    /\ NoDraw
    /\ pc' = "nd_random"
    /\ NdFrame

\* y = nd.random_normal(shape=(3, 4))
NdRandom ==
    /\ pc = "nd_random"
    /\ \E v \in Draws(NFill) :
          /\ heap' = [r \in Runs |-> Bind(r, "y", filled(<<3, 4>>, v[r])).heap]
          /\ names' = [r \in Runs |-> Bind(r, "y", filled(<<3, 4>>, v[r])).names]
          /\ Draw(v)
    /\ pc' = "nd_add"
    /\ NdFrame

X(r) == heap[r][names[r].x]

Y(r) == heap[r][names[r].y]

Z(r) == heap[r][names[r].z]

\* the heap and the names of run r after `y = y + x` done in place, as
\* `y += x` would
AddInPlace(r) == [heap |-> iadd(heap[r], names[r].y, X(r)), names |-> names[r]]

\* the heap and the names of run r after `y = y + x`
AddRebind(r) == Bind(r, "y", add(Y(r), X(r)))

\* y = y + x
NdAdd ==
    /\ pc = "nd_add"
    /\ heap' = [r \in Runs |-> AddRebind(r).heap]
    /\ names' = [r \in Runs |-> AddRebind(r).names]
    /\ NoDraw
    /\ pc' = "nd_zeros_like"
    /\ NdFrame

\* z = nd.zeros_like(x)
NdZerosLike ==
    /\ pc = "nd_zeros_like"
    /\ heap' = [r \in Runs |-> Bind(r, "z", zeros(X(r).shape)).heap]
    /\ names' = [r \in Runs |-> Bind(r, "z", zeros(X(r).shape)).names]
    /\ NoDraw
    /\ pc' = "nd_slice"
    /\ NdFrame

\* the heap of run r after `target[:] = x + y`: x + y is a new array, its
\* values are then written into the target
SliceAssignSum(r, target) ==
    setitem(alloc(heap[r], add(X(r), Y(r))), names[r][target], add(X(r), Y(r)))

\* z[:] = x + y
NdSlice ==
    /\ pc = "nd_slice"
    /\ heap' = [r \in Runs |-> SliceAssignSum(r, "z")]
    /\ UNCHANGED names
    /\ NoDraw
    /\ pc' = "nd_inplace"
    /\ NdFrame

\* the heap of run r after `x += y`
InPlaceAdd(r) == iadd(heap[r], names[r].x, Y(r))

\* assigning the result to x itself, in one of the two ways of the notebook:
\* x += y (the cell), or x[:] = x + y
NdInPlace ==
    /\ pc = "nd_inplace"
    /\ \/ /\ heap' = [r \in Runs |-> InPlaceAdd(r)]
          /\ pc' = "done"
       \/ /\ heap' = [r \in Runs |-> SliceAssignSum(r, "x")]
          /\ pc' = "done_slice"
    /\ UNCHANGED names
    /\ NoDraw
    /\ NdFrame

Next ==
    \/ Import \/ LoadTrain \/ LoadTest \/ Peek \/ DefineNet \/ Initialize
    \/ MakeTrainer \/ FirstEval \/ LoopInit
    \/ EpochStart \/ LoopEnd \/ NextBatch \/ EndBatches
    \/ ForwardPass \/ Backward \/ TrainerStep \/ MovingLoss
    \/ EvalTest \/ EvalTrain \/ PrintReport
    \/ NdEmpty \/ NdZeros \/ NdOnes \/ NdRandom \/ NdAdd \/ NdZerosLike
    \/ NdSlice \/ NdInPlace

Spec == Init /\ [][Next]_vars

SpecPair == InitPair /\ [][Next]_vars

(***************************************************************************)
(* Properties.                                                             *)
(***************************************************************************)
Stopped == pc \in {"done", "done_slice", "NameError"}

InLoop ==
    pc \in {"epoch", "batch", "forward", "backward", "step", "moving_loss",
            "eval_test", "eval_train", "print"}

\* the number of samples 1..n that the parameters v classify as labelled
NumCorrect(n, v) ==
    Cardinality({s \in 1 .. n : argmax(Scores(v, s)) = Label(s)})

\* the number of times sample s is delivered in one full pass of it
RECURSIVE CountIn(_, _)
CountIn(bs, s) ==
    IF bs = <<>> THEN 0 ELSE Occurrences(Head(bs), s) + CountIn(Tail(bs), s)

PassCount(it, s) == CountIn(Batches(it), s)

\* C1: in every notebook the moving-loss statement of a batch sets
\* moving_loss: to the batch loss on batch 0 of epoch 0, and on every later
\* batch to (1 - a) * moving_loss + a * loss with a = 0.01 (up to the
\* rounding of the last digit).
C1_MovingLossRule ==
    [][pc = "moving_loss" =>
         \A r \in Runs :
            LET curr == mean(loss[r])
            IN  /\ moving_loss'[r] # <<>>
                /\ IF e = 0 /\ train_data[r][1].cursor = 0
                   THEN moving_loss'[r][1] = curr
                   ELSE /\ moving_loss[r] # <<>>
                        /\ 100 * moving_loss'[r][1] <= 99 * moving_loss[r][1] + curr
                        /\ 100 * moving_loss'[r][1] > 99 * moving_loss[r][1] + curr - 100]_vars

\* the reports of run r are one per finished epoch, in order
OneReportPerEpoch(r) ==
    /\ Len(reports[r]) = e
    /\ \A k \in 1 .. Len(reports[r]) : reports[r][k].epoch = k - 1

\* the number of epochs whose batches have begun
StartedEpochs == IF pc \in {"epoch", "done"} THEN e ELSE e + 1

\* C2: the training loop hands the network it trains to evaluate_accuracy,
\* and when it has stopped every epoch it started has its one report (epoch
\* number, moving loss, both accuracies), printed after the two evaluations.
C2_ReportEveryEpoch ==
    /\ InLoop => EvaluatedNet(nb) = TrainedNet(nb)
    /\ \A r \in Runs :
          /\ nb \in Training => OneReportPerEpoch(r)
          /\ (nb \in Training /\ Stopped) => Len(reports[r]) = StartedEpochs
          /\ pc = "print" =>
                /\ train_accuracy[r] = <<evaluate_accuracy(train_data[r][1], w(r))>>
                /\ test_accuracy[r] = <<evaluate_accuracy(test_data[r][1], w(r))>>
                /\ moving_loss[r] # <<>>

\* the value a is the share of the n samples that v classifies as labelled
IsAccuracy(a, n, v) ==
    /\ a.sum_metric * n = NumCorrect(n, v) * a.num_inst
    /\ a.num_inst > 0

\* C3: evaluate_accuracy returns the number of samples whose argmax equals
\* the label divided by the number of samples of the data source, each
\* sample being counted once in the pass.
C3_AccuracyOverAllSamples ==
    \A r \in Runs :
       /\ pc = "eval_train" =>
             /\ IsAccuracy(test_accuracy[r][1], nTest, w(r))
             /\ \A s \in 1 .. nTest : PassCount(test_data[r][1], s) = 1
       /\ pc = "print" =>
             /\ IsAccuracy(train_accuracy[r][1], nTrain, w(r))
             /\ \A s \in 1 .. nTrain : PassCount(train_data[r][1], s) = 1

\* C4: the training loop stops after exactly epochs = 10 epochs, having
\* printed exactly 10 reports, for the epochs 0 to 9 in increasing order.
C4_TenEpochsTenReports ==
    (nb \in Training /\ Stopped) =>
        /\ pc = "done"
        /\ e = epochs
        /\ \A r \in Runs :
              /\ Len(reports[r]) = 10
              /\ \A k \in 1 .. 10 : reports[r][k].epoch = k - 1

\* C5: when the batches of an epoch are over every training sample has been
\* in exactly one mini-batch, so in exactly one parameter update of the epoch.
C5_EpochIsOnePass ==
    pc = "eval_test" =>
        \A r \in Runs : \A s \in 1 .. nTrain : used[r][s] = 1

\* C6: two executions that differ in the moving loss only (its value before
\* the loop, the smoothing constant) have, at every step, the same
\* parameters, losses, gradients and accuracies: the moving loss is display
\* only.
C6_MovingLossDisplayOnly ==
    /\ net[1] = net[2]
    /\ loss[1] = loss[2]
    /\ grad[1] = grad[2]
    /\ updates[1] = updates[2]
    /\ test_accuracy[1] = test_accuracy[2]
    /\ train_accuracy[1] = train_accuracy[2]
    /\ Len(reports[1]) = Len(reports[2])
    /\ \A k \in 1 .. Len(reports[1]) :
          /\ reports[1][k].epoch = reports[2][k].epoch
          /\ reports[1][k].train_acc = reports[2][k].train_acc
          /\ reports[1][k].test_acc = reports[2][k].test_acc

\* the two executions have trained, and their moving losses differ
C6_Witness ==
    /\ pc = "print"
    /\ e = epochs - 1
    /\ moving_loss[1] # moving_loss[2]
    /\ smoothing_constant[1] # smoothing_constant[2]
    /\ w(1) > 2

\* the number of layers of the given type in the blocks of a stack
RECURSIVE CountLayers(_, _)
CountLayers(blocks, type) ==
    IF blocks = <<>> THEN 0
    ELSE Cardinality({k \in 1 .. Len(Head(blocks).children) :
                         Head(blocks).children[k].type = type})
         + CountLayers(Tail(blocks), type)

\* the block is convs convolutions (kernel 3, the channels) and one pooling
IsVggBlock(b, convs, channels) ==
    /\ Len(b.children) = convs + 1
    /\ \A k \in 1 .. convs : b.children[k] = Conv2D(channels, 3)
    /\ b.children[convs + 1] = MaxPool2D(2, 2)
    /\ b.children[convs + 1].pool_size = 2
    /\ b.children[convs + 1].strides = 2

\* C7: the network the vgg notebook builds is one block per entry of the
\* architecture, in order, each of convs convolutions (kernel 3, the entry's
\* channels) and one max-pooling (pool 2, stride 2), followed by Flatten and
\* three Dense layers, the last of num_classes = 10 units; for the
\* notebook's architecture that is 13 convolutions and 5 poolings.
C7_VggStructure ==
    \A r \in Runs :
       (nb = "vgg" /\ net[r] # <<>>) =>
          LET layers == net[r][1].layers.children
              blocks == layers[1].children
          IN  /\ Len(blocks) = Len(architecture)
              /\ \A k \in 1 .. Len(architecture) :
                    IsVggBlock(blocks[k], architecture[k][1], architecture[k][2])
              /\ Len(layers) = 5
              /\ layers[2].type = "Flatten"
              /\ \A k \in 3 .. 5 : layers[k].type = "Dense"
              /\ layers[5].units = 10
              /\ architecture = notebook_architecture =>
                    /\ CountLayers(blocks, "Conv2D") = 13
                    /\ CountLayers(blocks, "MaxPool2D") = 5

\* the network of the notebook's architecture has been built
C7_Witness ==
    /\ nb = "vgg"
    /\ architecture = notebook_architecture
    /\ net[1] # <<>>
    /\ Len(net[1][1].layers.children[1].children[3].children) = 4

\* C8: `y = y + x` binds y to a newly allocated array that holds the sum;
\* its identity differs from the one y had, and no array that existed
\* before (the ones x and y referred to among them) is modified.
C8_AddAllocates ==
    [][pc = "nd_add" =>
         \A r \in Runs :
            /\ names'[r].y # names[r].y
            /\ names'[r].y \notin DOMAIN heap[r]
            /\ names'[r].x = names[r].x
            /\ \A id \in DOMAIN heap[r] : heap'[r][id] = heap[r][id]
            /\ heap'[r][names'[r].y].data
                  = [k \in 1 .. Len(Y(r).data) |-> Y(r).data[k] + X(r).data[k]]]_vars

\* `y = y + x` has run: y is the fifth array, the old y is the fourth
C8_Witness ==
    /\ pc = "nd_zeros_like"
    /\ names[1].y = 5
    /\ heap[1][5].data # heap[1][4].data

\* C9: `z[:] = x + y` leaves z's identity and gives z the values of x + y;
\* assigning the result to x itself, by `x += y` or by `x[:] = x + y`,
\* leaves x's identity and gives x the old x plus y, the same in both forms;
\* y is not modified.
C9_InPlaceKeepsIdentity ==
    [][/\ pc = "nd_slice" =>
             \A r \in Runs :
                /\ names'[r] = names[r]
                /\ heap'[r][names[r].z].data
                      = [k \in 1 .. Len(X(r).data) |-> X(r).data[k] + Y(r).data[k]]
                /\ heap'[r][names[r].x] = X(r)
                /\ heap'[r][names[r].y] = Y(r)
       /\ pc = "nd_inplace" =>
             \A r \in Runs :
                /\ names'[r] = names[r]
                /\ heap'[r][names[r].x].data
                      = [k \in 1 .. Len(X(r).data) |-> X(r).data[k] + Y(r).data[k]]
                /\ heap'[r][names[r].y] = Y(r)]_vars

\* x has been assigned in place by slice notation, after z was
C9_Witness ==
    /\ pc = "done_slice"
    /\ names[1].x = 3
    /\ Z(1).data # zeros(<<3, 4>>).data
    /\ X(1).data # ones(<<3, 4>>).data

\* C10: every notebook sets the seed before it draws a random value, so two
\* executions of a notebook draw the same values and get the same
\* parameters and reports.
C10_SeededRuns ==
    /\ \A r \in Runs : drawn[r] # <<>> => rng[r].seeded
    /\ drawn[1] = drawn[2]
    /\ net[1] = net[2]
    /\ reports[1] = reports[2]

\* the arrays of run r, whether a name still refers to them or not
Arrays(r) == {heap[r][id] : id \in DOMAIN heap[r]}

BatchesPerEpoch(it) == Len(Batches(it))

\* C12: a batch step is, in this order and once each, the forward pass with
\* the loss, the gradient computation, one parameter update by
\* trainer.step with the number of samples of the batch, and the moving-loss
\* update, after which the loop goes for the next batch; the parameters are
\* updated nowhere else, so a run that has ended has made epochs times the
\* number of batches per epoch updates.
C12_BatchStepOrder ==
    [][\A r \in Runs :
          /\ pc = "forward" =>
                /\ pc' = "backward"
                /\ loss'[r] = softmax_cross_entropy(Forward(w(r), batch[r]),
                                                    Labels(batch[r]))
          /\ pc = "backward" =>
                /\ pc' = "step"
                /\ grad'[r] = <<backward(loss[r])>>
          /\ pc = "step" =>
                /\ pc' = "moving_loss"
                /\ updates'[r] = updates[r] + 1
                /\ net'[r][1].params
                      = <<trainer_step(w(r), grad[r][1], Len(batch[r]))>>
          /\ pc = "moving_loss" =>
                /\ pc' = "batch"
                /\ moving_loss'[r] # <<>>
          /\ pc # "step" =>
                /\ updates'[r] = updates[r]
                /\ (net[r] # <<>> /\ net[r][1].params # <<>>) =>
                      net'[r][1].params = net[r][1].params
          /\ (nb \in Training /\ pc' \in {"done", "NameError"}) =>
                updates'[r] = epochs * BatchesPerEpoch(train_data'[r][1])]_vars

\* the cells that pass data through the network for the first time: the
\* softmax notebook's evaluate_accuracy cell, else the first forward pass
CallsNet == pc \in {"first_eval", "forward"}

\* the weight shapes the notebook's data gives its layers
ShapesFromData(r) ==
    IF nb = "softmax" THEN net[r][1].shapes[1] = <<<<num_outputs, 784>>>>
    ELSE IF nb = "cnn"
    THEN net[r][1].shapes[1] = <<<<20, 1, 5, 5>>, <<50, 20, 5, 5>>,
                                 <<512, 50 * 4 * 4>>, <<num_outputs, 512>>>>
    ELSE LET shapes == net[r][1].shapes[1]
         IN  /\ Len(shapes) = 3 + SumSeq([k \in 1 .. Len(architecture) |->
                                            architecture[k][1]])
             /\ shapes[Len(shapes)] = <<num_classes, 4096>>
             /\ shapes[Len(shapes) - 1] = <<4096, 4096>>

\* C13: the parameter shapes are unknown after the layers are added and
\* after collect_params().initialize; the first pass of data through the
\* network, and nothing else, infers them from the data; the parameters
\* are initialised before that pass, that pass comes before any gradient
\* computation and any parameter update, and inferred shapes stay as they
\* are.
C13_DeferredShapes ==
    [][\A r \in Runs :
          /\ pc' \in {"initialize", "trainer"} => net'[r][1].shapes = <<>>
          /\ (net[r] # <<>> /\ net[r][1].shapes = <<>>) =>
                IF CallsNet
                THEN /\ net[r][1].params # <<>>
                     /\ grad[r] = <<>>
                     /\ updates[r] = 0
                     /\ net'[r][1].shapes # <<>>
                     /\ ShapesFromData(r)'
                ELSE net'[r][1].shapes = <<>>
          /\ pc' \in {"backward", "step", "moving_loss"} =>
                net'[r][1].shapes # <<>>
          /\ (grad'[r] # <<>> \/ updates'[r] > 0) => net'[r][1].shapes # <<>>
          /\ (net[r] # <<>> /\ net[r][1].shapes # <<>>) =>
                net'[r][1].shapes = net[r][1].shapes]_vars

\* the first forward pass of the CNN notebook has just inferred the shapes,
\* before any gradient and any update
C13_Witness ==
    /\ nb = "cnn"
    /\ pc = "backward"
    /\ updates[1] = 0
    /\ grad[1] = <<>>
    /\ net[1][1].params # <<>>
    /\ net[1][1].shapes = <<<<<<20, 1, 5, 5>>, <<50, 20, 5, 5>>, <<512, 800>>,
                               <<10, 512>>>>>>

=============================================================================
